---- MODULE Spec2Model ----
(***************************************************************************)
(* Model of the application store (stores/useStore.ts) of the railway      *)
(* decision-support dashboard: the recommendation decision actions, the    *)
(* fetch actions and runSimulation, with the asynchronous invocations      *)
(* interleaved on one event loop.  Every action of the model is one        *)
(* synchronous run of the code between two await points.                   *)
(***************************************************************************)
EXTENDS Integers, Sequences, FiniteSets, TLC

\* ---------------------------------------------------------------- bounds
MaxTasks == 2      \* invocations in flight at the same time
MaxCalls == 2      \* invocations issued in one behaviour
MaxClock == 1      \* readings of Date.now() (0..MaxClock)

\* ------------------------------------------------------------- constants
NoValue == "undefined"
NullError == "null"

Slots == 1..MaxTasks

RecIds == {"rec-001", "rec-002"}
AltIds == {"alt-001", "alt-002"}
Reasons == {"Safety concern", "No reason provided"}

\* services/mockData.ts: mockAlternatives
mockAlternatives ==
  << [id |-> "alt-001", action |-> "Reroute via Oxford"],
     [id |-> "alt-002", action |-> "Priority scheduling at next junction"] >>

\* a Recommendation as the /recommendations endpoint delivers it
Rec(id, trainId, action, alts) ==
  [id |-> id, trainId |-> trainId, action |-> action, status |-> "pending",
   alternatives |-> alts]

\* services/mockData.ts: mockRecommendations
mockRecommendations ==
  << Rec("rec-001", "train-001", "Implement dynamic rerouting for IC-2847",
         mockAlternatives) >>

\* the lists a /recommendations response can carry: the mock list, and a
\* list with a second recommendation that has a single alternative
RecPayloads ==
  { mockRecommendations,
    mockRecommendations \o
      << Rec("rec-002", "train-002", "Hold IC-1923 at platform",
             << mockAlternatives[2] >>) >> }

\* the lists a /trains response can carry
TrainPayloads ==
  { << [id |-> "train-001", delayMinutes |-> 12] >>,
    << [id |-> "train-001", delayMinutes |-> 0] >> }

\* services/mockData.ts: mockAuditLogs, the first entry
\* (its id "audit-001" is written <<"audit", -1>>: no reading of the clock
\* renders as 001, so it differs from every id built from Date.now())
mockAuditLogs ==
  << [id |-> <<"audit", -1>>, timestamp |-> 0, action |-> "Recommendation Generated",
      actor |-> "AI System", details |-> NoValue, trainId |-> "train-001",
      recId |-> "rec-001", reason |-> "Automatic optimization trigger due to delay threshold exceeded",
      outcome |-> "success"] >>

\* the lists a successful /audit GET can carry (server-side entries)
AuditPayloads ==
  { << [id |-> <<"audit", -1>>, timestamp |-> 0, action |-> "Recommendation Generated",
        actor |-> "AI System", details |-> NoValue, trainId |-> "train-001",
        recId |-> "rec-001", reason |-> "Automatic optimization trigger due to delay threshold exceeded",
        outcome |-> "success"] >> }

\* the list a successful /predictions response can carry
PredictionPayloads ==
  { << [trainId |-> "train-001", delayMinutes |-> 9, modelVersion |-> "v2.1.3"] >> }

\* the data of a successful /kpis response: { kpis, networkStatus, summary }
KpiPayloads ==
  { [kpis |-> << [name |-> "throughput", value |-> 42] >>,
     networkStatus |-> "normal", summary |-> [totalTrains |-> 4]] }

\* the texts a user sends to the assistant
Texts == {"status of IC-2847?", "why this recommendation?"}

\* the values of Math.random().toString(36).substr(2, 9)
Randoms == 1..2

\* the session ids callers pass to sendChatMessage
ChatSessionIds == { <<"session", 0, r>> : r \in Randoms }

\* app/api/chat/route.ts: the one message generateGeneralResponse returns
aiResponse ==
  [id |-> <<"msg", 0, "ai">>, role |-> "assistant",
   text |-> "I'm here to help with railway network analysis.", timestamp |-> 0]

\* what the chat request can bring back: a body with the reply list, a
\* failure of the transport, or a success body without a data array
ChatResponses ==
  { [kind |-> "data", data |-> << aiResponse >>],
    [kind |-> "rejected"],
    [kind |-> "nodata"] }

\* the outcomes of the /simulate request seen by runWhatIfScenario
SimResponses == {"ok", "fail"}

\* ------------------------------------------------------------- variables
VARIABLES
  recommendations,  \* Store: Recommendation[]
  auditLogs,        \* Store: AuditLog[]
  trains,           \* Store: Train[]
  predictions,      \* Store: Prediction[]
  kpis,             \* Store: KPI[]
  chatSessions,     \* Store: ChatSession[]
  loading,          \* Store: boolean
  error,            \* Store: string | null
  lastUpdated,      \* Store: the time stamp of each collection's last fetch
  tasks,            \* the invocations in flight, one per slot
  now,              \* the last reading of Date.now()
  calls,            \* invocations issued so far
  posts,            \* postAudit invocations so far
  contributed,      \* entries of the last audit fetch plus one per commit made since
  settledFetches,   \* the fetchTrains requests that settled, in settlement order
  chatCalls,        \* the sendChatMessage invocations, in call order
  selectedTrains,   \* Store: string[]
  activeFilters,    \* Store: FilterState
  auditStorage,     \* server, app/api/audit/route.ts: the stored AuditLog[]
  exchange,         \* the last direct call of a service adapter operation
  requests,         \* HTTP requests made by the adapter calls that have settled
  last              \* the event of the last step

vars == <<recommendations, auditLogs, trains, predictions, kpis, chatSessions, loading, error, lastUpdated, tasks, now, calls, posts, contributed, settledFetches, chatCalls, selectedTrains, activeFilters, auditStorage, exchange, requests, last>>

Idle == [op |-> "idle"]

\* ---------------------------------------------------------------- helpers
\* Array.prototype.find on the id: index of the first match, 0 if none
FindIndex(list, id) ==
  IF \E i \in 1..Len(list) : list[i].id = id
  THEN CHOOSE i \in 1..Len(list) :
         /\ list[i].id = id
         /\ \A j \in 1..(i - 1) : list[j].id # id
  ELSE 0

\* auditService.createAuditLog
createAuditLog(action, actor, details, trainId, recId, reason) ==
  [action |-> action, actor |-> actor, details |-> details, trainId |-> trainId,
   recId |-> recId, reason |-> reason, outcome |-> "success"]

\* variant: the reason given by the caller is not copied to the stored entry
StoredEntry_NoReason(auditLog, clock) ==
  [id |-> <<"audit", clock>>, timestamp |-> clock,
   action |-> auditLog.action, actor |-> auditLog.actor, details |-> auditLog.details,
   trainId |-> auditLog.trainId, recId |-> auditLog.recId, reason |-> NoValue,
   outcome |-> auditLog.outcome]

\* { ...auditLog, id: `audit-${Date.now()}`, timestamp: new Date().toISOString() }
StoredEntry(auditLog, clock) ==
  [id |-> <<"audit", clock>>, timestamp |-> clock,
   action |-> auditLog.action, actor |-> auditLog.actor, details |-> auditLog.details,
   trainId |-> auditLog.trainId, recId |-> auditLog.recId, reason |-> auditLog.reason,
   outcome |-> auditLog.outcome]

FreeSlot == CHOOSE s \in Slots : tasks[s] = Idle /\ \A u \in 1..(s - 1) : tasks[u] # Idle
CanCall == calls < MaxCalls /\ \E s \in Slots : tasks[s] = Idle

\* ------------------------------------------------------- transport adapter
\* the statuses a response can carry; Response.ok is true for 200..299
Statuses == {200, 201, 299, 300, 400, 404, 500}

\* what fetch(url, options) can do: throw, or deliver a response whose body
\* is JSON or is not
HttpOutcomes ==
  { [kind |-> "network error"] } \cup
  { [kind |-> "response", status |-> st, json |-> j] : st \in Statuses, j \in BOOLEAN }

HttpOk == [kind |-> "response", status |-> 200, json |-> TRUE]
HttpDown == [kind |-> "network error"]

\* variant: the status of the response is not looked at
apiFetch_IgnoresStatus(outcome) ==
  IF outcome.kind = "network error"
  THEN [settled |-> "rejected", error |-> "TypeError: Failed to fetch", fetches |-> 1]
  ELSE IF ~outcome.json
  THEN [settled |-> "rejected", error |-> "SyntaxError", fetches |-> 1]
  ELSE [settled |-> "resolved", fetches |-> 1]

\* variant: a failed request is sent a second time
apiFetch_Retry(outcome) ==
  IF outcome.kind = "network error"
  THEN [settled |-> "rejected", error |-> "TypeError: Failed to fetch", fetches |-> 2]
  ELSE IF outcome.status \notin 200..299
  THEN [settled |-> "rejected", error |-> <<"HTTP error! status: ", outcome.status>>, fetches |-> 2]
  ELSE IF ~outcome.json
  THEN [settled |-> "rejected", error |-> "SyntaxError", fetches |-> 1]
  ELSE [settled |-> "resolved", fetches |-> 1]

\* adapterBase.apiFetch: one fetch(); a thrown error, a status outside
\* 200..299 and a body that does not parse are all rethrown
apiFetch(outcome) ==
  IF outcome.kind = "network error"
  THEN [settled |-> "rejected", error |-> "TypeError: Failed to fetch", fetches |-> 1]
  ELSE IF outcome.status \notin 200..299
  THEN [settled |-> "rejected", error |-> <<"HTTP error! status: ", outcome.status>>, fetches |-> 1]
  ELSE IF ~outcome.json
  THEN [settled |-> "rejected", error |-> "SyntaxError", fetches |-> 1]
  ELSE [settled |-> "resolved", fetches |-> 1]

\* the HTTP requests behind one adapter call of a Store action that settled
\* with (ok) or without a response
Attempts(ok) == apiFetch(IF ok THEN HttpOk ELSE HttpDown).fetches

\* ------------------------------------------------------------------ Init
\* the initial state of create(), with the persisted recommendations and
\* their lastUpdated stamp (none, or a list stored after an earlier fetch)
\* restored by the persist middleware
Init ==
  /\ recommendations \in {<< >>} \cup RecPayloads
  /\ lastUpdated = IF recommendations = << >> THEN << >> ELSE [recommendations |-> 0]
  /\ auditLogs = << >>
  /\ trains = << >>
  /\ predictions = << >>
  /\ kpis = << >>
  /\ chatSessions = << >>
  /\ loading = FALSE
  /\ error = NullError
  /\ tasks = [s \in Slots |-> Idle]
  /\ now = 0
  /\ calls = 0
  /\ posts = 0
  /\ contributed = 0
  /\ settledFetches = << >>
  /\ chatCalls = << >>
  /\ selectedTrains = << >>
  /\ activeFilters = << >>
  /\ auditStorage = mockAuditLogs
  /\ exchange = [op |-> "none"]
  /\ requests = 0
  /\ last = [ev |-> "init"]

\* the values Date.now() can return when it is read: the clock never runs
\* backwards
Readings == now..MaxClock

\* -------------------------------------------------- decision actions: call
\* variant: the override entry records the selected action as the original
DecisionAuditLog_NoOriginal(op, rec, alt, recId, altId, reason) ==
  IF op = "accept" THEN
    createAuditLog("Recommendation Accepted", "System User",
                   [recommendationId |-> recId, action |-> rec.action],
                   rec.trainId, recId, "User accepted AI recommendation")
  ELSE IF op = "override" THEN
    createAuditLog("Recommendation Overridden", "System User",
                   [recommendationId |-> recId, alternativeId |-> altId,
                    originalAction |-> alt.action, selectedAction |-> alt.action],
                   rec.trainId, recId, <<"User selected alternative: ", alt.action>>)
  ELSE
    createAuditLog("Recommendation Rejected", "System User",
                   [recommendationId |-> recId, action |-> rec.action],
                   rec.trainId, recId, reason)

\* the audit entry a decision action builds before `await postAudit(...)`
DecisionAuditLog(op, rec, alt, recId, altId, reason) ==
  IF op = "accept" THEN
    createAuditLog("Recommendation Accepted", "System User",
                   [recommendationId |-> recId, action |-> rec.action],
                   rec.trainId, recId, "User accepted AI recommendation")
  ELSE IF op = "override" THEN
    createAuditLog("Recommendation Overridden", "System User",
                   [recommendationId |-> recId, alternativeId |-> altId,
                    originalAction |-> rec.action, selectedAction |-> alt.action],
                   rec.trainId, recId, <<"User selected alternative: ", alt.action>>)
  ELSE
    createAuditLog("Recommendation Rejected", "System User",
                   [recommendationId |-> recId, action |-> rec.action],
                   rec.trainId, recId, reason)

\* lookup of the target: TRUE when the action throws before its try block
NotFound(op, recId, altId) ==
  LET i == FindIndex(recommendations, recId) IN
    IF i = 0 THEN TRUE
    ELSE IF op = "override"
         THEN FindIndex(recommendations[i].alternatives, altId) = 0
         ELSE FALSE

\* variant: set({ loading: true, error: null }) runs before the lookup
DecisionThrow_SetsLoading(op, recId, altId, reason) ==
  /\ NotFound(op, recId, altId)
  /\ loading' = TRUE
  /\ error' = NullError
  /\ last' = [ev |-> "thrown"]
  /\ UNCHANGED <<selectedTrains, activeFilters, auditStorage, exchange, requests, chatCalls, predictions, kpis, chatSessions, recommendations, auditLogs, trains, tasks, now, calls, posts, contributed, settledFetches, lastUpdated>>

\* the target is not found: the action throws before its try block
DecisionThrow(op, recId, altId, reason) ==
  /\ NotFound(op, recId, altId)
  /\ last' = [ev |-> "thrown"]
  /\ UNCHANGED <<selectedTrains, activeFilters, auditStorage, exchange, requests, chatCalls, predictions, kpis, chatSessions, recommendations, auditLogs, trains, loading, error, tasks, now, calls, posts, contributed, settledFetches, lastUpdated>>

DecisionCall(op, recId, altId, reason) ==
  /\ CanCall
  /\ ~NotFound(op, recId, altId)
  /\ LET state == [recommendations |-> recommendations, auditLogs |-> auditLogs]
         rec == recommendations[FindIndex(recommendations, recId)]
         alt == IF op = "override"
                THEN rec.alternatives[FindIndex(rec.alternatives, altId)]
                ELSE NoValue
         task == [op |-> op, recId |-> recId, altId |-> altId,
                  reason |-> reason, state |-> state, alternative |-> alt,
                  auditLog |-> DecisionAuditLog(op, rec, alt, recId, altId, reason)]
     IN /\ tasks' = [tasks EXCEPT ![FreeSlot] = task]
        /\ last' = [ev |-> "issued", task |-> task]
  /\ loading' = TRUE
  /\ error' = NullError
  /\ calls' = calls + 1
  /\ posts' = posts + 1
  /\ UNCHANGED <<selectedTrains, activeFilters, auditStorage, exchange, requests, chatCalls, predictions, kpis, chatSessions, recommendations, auditLogs, trains, now, contributed, settledFetches, lastUpdated>>

acceptRecommendation(recId) ==
  \/ DecisionCall("accept", recId, NoValue, NoValue)
  \/ DecisionThrow("accept", recId, NoValue, NoValue)

overrideRecommendation(recId, altId) ==
  \/ DecisionCall("override", recId, altId, NoValue)
  \/ DecisionThrow("override", recId, altId, NoValue)

rejectRecommendation(recId, reason) ==
  \/ DecisionCall("reject", recId, NoValue, reason)
  \/ DecisionThrow("reject", recId, NoValue, reason)

\* ----------------------------------------------- decision actions: settle
\* variant: accepting replaces the action text by the first alternative's
UpdatedRec_AcceptRewrites(task, r) ==
  IF r.id # task.recId THEN r
  ELSE IF task.op = "accept"
       THEN [r EXCEPT !.status = "accepted", !.action = r.alternatives[1].action]
  ELSE IF task.op = "override"
       THEN [r EXCEPT !.status = "accepted", !.action = task.alternative.action]
  ELSE [r EXCEPT !.status = "rejected"]

\* state.recommendations.map(r => r.id === recId ? {...r, status, action?} : r)
UpdatedRec(task, r) ==
  IF r.id # task.recId THEN r
  ELSE IF task.op = "accept" THEN [r EXCEPT !.status = "accepted"]
  ELSE IF task.op = "override"
       THEN [r EXCEPT !.status = "accepted", !.action = task.alternative.action]
  ELSE [r EXCEPT !.status = "rejected"]

\* the arrays are computed from the `state` the action read before the await
updatedRecommendations(task) ==
  [i \in 1..Len(task.state.recommendations) |->
     UpdatedRec(task, task.state.recommendations[i])]

\* variant: the status is committed without the audit entry
CommittedAuditLogs_Dropped(task, clock) == task.state.auditLogs

CommittedAuditLogs(task, clock) ==
  << StoredEntry(task.auditLog, clock) >> \o task.state.auditLogs

IsDecision(task) == task.op \in {"accept", "override", "reject"}

\* postAudit resolved: the single set() after the await
DecisionCommit(s) ==
  /\ IsDecision(tasks[s])
  /\ recommendations' = updatedRecommendations(tasks[s])
  /\ \E t \in Readings :
       /\ now' = t
       /\ auditLogs' = CommittedAuditLogs(tasks[s], t)
  /\ loading' = FALSE
  /\ tasks' = [tasks EXCEPT ![s] = Idle]
  /\ last' = [ev |-> "resolved", task |-> tasks[s]]
  /\ contributed' = contributed + 1
  /\ requests' = requests + Attempts(TRUE)
  /\ UNCHANGED <<selectedTrains, activeFilters, auditStorage, exchange, chatCalls, predictions, kpis, chatSessions, trains, error, calls, posts, settledFetches, lastUpdated>>

\* the fixed message of the catch block
DecisionErrorMessage(op) ==
  IF op = "accept" THEN "Failed to accept recommendation"
  ELSE IF op = "override" THEN "Failed to override recommendation"
  ELSE "Failed to reject recommendation"

\* variant: the status is written before the audit write is known to succeed
DecisionFail_Optimistic(s) ==
  /\ IsDecision(tasks[s])
  /\ recommendations' = updatedRecommendations(tasks[s])
  /\ error' = DecisionErrorMessage(tasks[s].op)
  /\ loading' = FALSE
  /\ tasks' = [tasks EXCEPT ![s] = Idle]
  /\ last' = [ev |-> "rejected", task |-> tasks[s]]
  /\ requests' = requests + Attempts(FALSE)
  /\ UNCHANGED <<selectedTrains, activeFilters, auditStorage, exchange, chatCalls, predictions, kpis, chatSessions, auditLogs, trains, now, calls, posts, contributed, settledFetches, lastUpdated>>

\* postAudit rejected: the catch block, which rethrows
DecisionFail(s) ==
  /\ IsDecision(tasks[s])
  /\ error' = DecisionErrorMessage(tasks[s].op)
  /\ loading' = FALSE
  /\ tasks' = [tasks EXCEPT ![s] = Idle]
  /\ last' = [ev |-> "rejected", task |-> tasks[s]]
  /\ requests' = requests + Attempts(FALSE)
  /\ UNCHANGED <<selectedTrains, activeFilters, auditStorage, exchange, chatCalls, predictions, kpis, chatSessions, recommendations, auditLogs, trains, now, calls, posts, contributed, settledFetches, lastUpdated>>

\* ------------------------------------------------------------ fetch actions
\* { ...get().lastUpdated, [key]: new Date().toISOString() }
\* variant: the commit leaves lastUpdated as it found it
Stamp_Skipped(stamps, key, clock) == stamps

Stamp(stamps, key, clock) ==
  [k \in DOMAIN stamps \cup {key} |-> IF k = key THEN clock ELSE stamps[k]]

FetchCall(op, response) ==
  /\ CanCall
  /\ LET task == [op |-> op, seq |-> calls + 1, response |-> response]
     IN /\ tasks' = [tasks EXCEPT ![FreeSlot] = task]
        /\ last' = [ev |-> "issued", task |-> task]
  /\ loading' = TRUE
  /\ error' = NullError
  /\ calls' = calls + 1
  /\ UNCHANGED <<selectedTrains, activeFilters, auditStorage, exchange, requests, chatCalls, predictions, kpis, chatSessions, recommendations, auditLogs, trains, now, posts, contributed, settledFetches, lastUpdated>>

Failed == [ok |-> FALSE]
Ok(data) == [ok |-> TRUE, data |-> data]

fetchTrains == \E r \in {Ok(p) : p \in TrainPayloads} \cup {Failed} : FetchCall("fetchTrains", r)

fetchRecommendations ==
  \E r \in {Ok(p) : p \in RecPayloads} \cup {Failed} : FetchCall("fetchRecommendations", r)

\* auditService.getAudit: a failed request is answered with []
getAudit(response) == IF response.ok THEN response.data ELSE << >>

fetchAuditLogs ==
  \E r \in {Ok(p) : p \in AuditPayloads} \cup {Failed} : FetchCall("fetchAuditLogs", r)

\* variant: a response is applied only when it answers the latest request
FetchTrainsSettle_LatestOnly(s) ==
  /\ tasks[s].op = "fetchTrains"
  /\ IF tasks[s].response.ok
     THEN /\ trains' = IF tasks[s].seq = calls THEN tasks[s].response.data ELSE trains
          /\ loading' = FALSE
          /\ last' = [ev |-> "resolved", task |-> tasks[s]]
          /\ \E t \in Readings :
               /\ now' = t
               /\ lastUpdated' = Stamp(lastUpdated, "trains", t)
          /\ UNCHANGED error
     ELSE /\ error' = "Failed to fetch trains"
          /\ loading' = FALSE
          /\ last' = [ev |-> "failed", task |-> tasks[s]]
          /\ UNCHANGED <<trains, lastUpdated, now>>
  /\ tasks' = [tasks EXCEPT ![s] = Idle]
  /\ settledFetches' = Append(settledFetches, [seq |-> tasks[s].seq, response |-> tasks[s].response])
  /\ requests' = requests + Attempts(tasks[s].response.ok)
  /\ UNCHANGED <<selectedTrains, activeFilters, auditStorage, exchange, chatCalls, predictions, kpis, chatSessions, recommendations, auditLogs, calls, posts, contributed>>

\* the /trains request settled: the commit, or the catch block
FetchTrainsSettle(s) ==
  /\ tasks[s].op = "fetchTrains"
  /\ IF tasks[s].response.ok
     THEN /\ trains' = tasks[s].response.data
          /\ loading' = FALSE
          /\ last' = [ev |-> "resolved", task |-> tasks[s]]
          /\ \E t \in Readings :
               /\ now' = t
               /\ lastUpdated' = Stamp(lastUpdated, "trains", t)
          /\ UNCHANGED error
     ELSE /\ error' = "Failed to fetch trains"
          /\ loading' = FALSE
          /\ last' = [ev |-> "failed", task |-> tasks[s]]
          /\ UNCHANGED <<trains, lastUpdated, now>>
  /\ tasks' = [tasks EXCEPT ![s] = Idle]
  /\ settledFetches' = Append(settledFetches, [seq |-> tasks[s].seq, response |-> tasks[s].response])
  /\ requests' = requests + Attempts(tasks[s].response.ok)
  /\ UNCHANGED <<selectedTrains, activeFilters, auditStorage, exchange, chatCalls, predictions, kpis, chatSessions, recommendations, auditLogs, calls, posts, contributed>>

\* variant: the commit of a successful fetch also writes error: null
FetchRecommendationsSettle_ClearsError(s) ==
  /\ tasks[s].op = "fetchRecommendations"
  /\ IF tasks[s].response.ok
     THEN /\ recommendations' = tasks[s].response.data
          /\ loading' = FALSE
          /\ last' = [ev |-> "resolved", task |-> tasks[s]]
          /\ \E t \in Readings :
               /\ now' = t
               /\ lastUpdated' = Stamp(lastUpdated, "recommendations", t)
          /\ error' = NullError
     ELSE /\ error' = "Failed to fetch recommendations"
          /\ loading' = FALSE
          /\ last' = [ev |-> "failed", task |-> tasks[s]]
          /\ UNCHANGED <<recommendations, lastUpdated, now>>
  /\ tasks' = [tasks EXCEPT ![s] = Idle]
  /\ requests' = requests + Attempts(tasks[s].response.ok)
  /\ UNCHANGED <<selectedTrains, activeFilters, auditStorage, exchange, chatCalls, predictions, kpis, chatSessions, auditLogs, trains, calls, posts, contributed, settledFetches>>

\* the /recommendations request settled: the commit, or the catch block
FetchRecommendationsSettle(s) ==
  /\ tasks[s].op = "fetchRecommendations"
  /\ IF tasks[s].response.ok
     THEN /\ recommendations' = tasks[s].response.data
          /\ loading' = FALSE
          /\ last' = [ev |-> "resolved", task |-> tasks[s]]
          /\ \E t \in Readings :
               /\ now' = t
               /\ lastUpdated' = Stamp(lastUpdated, "recommendations", t)
          /\ UNCHANGED error
     ELSE /\ error' = "Failed to fetch recommendations"
          /\ loading' = FALSE
          /\ last' = [ev |-> "failed", task |-> tasks[s]]
          /\ UNCHANGED <<recommendations, lastUpdated, now>>
  /\ tasks' = [tasks EXCEPT ![s] = Idle]
  /\ requests' = requests + Attempts(tasks[s].response.ok)
  /\ UNCHANGED <<selectedTrains, activeFilters, auditStorage, exchange, chatCalls, predictions, kpis, chatSessions, auditLogs, trains, calls, posts, contributed, settledFetches>>

\* variant: the commit writes the collection only, set({ auditLogs })
FetchAuditLogsSettle_KeepsLoading(s) ==
  /\ tasks[s].op = "fetchAuditLogs"
  /\ auditLogs' = getAudit(tasks[s].response)
  /\ last' = [ev |-> "resolved", task |-> tasks[s]]
  /\ tasks' = [tasks EXCEPT ![s] = Idle]
  /\ contributed' = Len(getAudit(tasks[s].response))
  /\ requests' = requests + Attempts(tasks[s].response.ok)
  /\ UNCHANGED <<selectedTrains, activeFilters, auditStorage, exchange, chatCalls, predictions, kpis, chatSessions, recommendations, trains, loading, error, now, calls, posts, settledFetches, lastUpdated>>

\* getAudit never rejects, so the catch block of fetchAuditLogs is not reached
FetchAuditLogsSettle(s) ==
  /\ tasks[s].op = "fetchAuditLogs"
  /\ auditLogs' = getAudit(tasks[s].response)
  /\ loading' = FALSE
  /\ last' = [ev |-> "resolved", task |-> tasks[s]]
  /\ tasks' = [tasks EXCEPT ![s] = Idle]
  /\ contributed' = Len(getAudit(tasks[s].response))
  /\ requests' = requests + Attempts(tasks[s].response.ok)
  /\ UNCHANGED <<selectedTrains, activeFilters, auditStorage, exchange, chatCalls, predictions, kpis, chatSessions, recommendations, trains, error, now, calls, posts, settledFetches, lastUpdated>>

\* predictionAdapter.getPredictionsForTrains: a failed request is answered
\* with []
getPredictionsForTrains(response) == IF response.ok THEN response.data ELSE << >>

\* the trains read from the Store go into the request only
fetchPredictions ==
  \E r \in {Ok(p) : p \in PredictionPayloads} \cup {Failed} : FetchCall("fetchPredictions", r)

\* getPredictionsForTrains never rejects, so the catch block of
\* fetchPredictions is not reached
FetchPredictionsSettle(s) ==
  /\ tasks[s].op = "fetchPredictions"
  /\ predictions' = getPredictionsForTrains(tasks[s].response)
  /\ loading' = FALSE
  /\ \E t \in Readings :
       /\ now' = t
       /\ lastUpdated' = Stamp(lastUpdated, "predictions", t)
  /\ last' = [ev |-> "resolved", task |-> tasks[s]]
  /\ tasks' = [tasks EXCEPT ![s] = Idle]
  /\ requests' = requests + Attempts(tasks[s].response.ok)
  /\ UNCHANGED <<selectedTrains, activeFilters, auditStorage, exchange, chatCalls, recommendations, auditLogs, trains, kpis, chatSessions, error, calls, posts, contributed, settledFetches>>

fetchKpis == \E r \in {Ok(p) : p \in KpiPayloads} \cup {Failed} : FetchCall("fetchKpis", r)

\* variant: the commit writes a lastUpdated object holding its own stamp only
FetchKpisSettle_OwnStampOnly(s) ==
  /\ tasks[s].op = "fetchKpis"
  /\ IF tasks[s].response.ok
     THEN /\ kpis' = tasks[s].response.data
          /\ loading' = FALSE
          /\ last' = [ev |-> "resolved", task |-> tasks[s]]
          /\ \E t \in Readings :
               /\ now' = t
               /\ lastUpdated' = [kpis |-> t]
          /\ UNCHANGED error
     ELSE /\ error' = "Failed to fetch KPIs"
          /\ loading' = FALSE
          /\ last' = [ev |-> "failed", task |-> tasks[s]]
          /\ UNCHANGED <<kpis, lastUpdated, now>>
  /\ tasks' = [tasks EXCEPT ![s] = Idle]
  /\ requests' = requests + Attempts(tasks[s].response.ok)
  /\ UNCHANGED <<selectedTrains, activeFilters, auditStorage, exchange, chatCalls, recommendations, auditLogs, trains, predictions, chatSessions, calls, posts, contributed, settledFetches>>

\* the /kpis request settled: the commit, or the catch block
FetchKpisSettle(s) ==
  /\ tasks[s].op = "fetchKpis"
  /\ IF tasks[s].response.ok
     THEN /\ kpis' = tasks[s].response.data
          /\ loading' = FALSE
          /\ last' = [ev |-> "resolved", task |-> tasks[s]]
          /\ \E t \in Readings :
               /\ now' = t
               /\ lastUpdated' = Stamp(lastUpdated, "kpis", t)
          /\ UNCHANGED error
     ELSE /\ error' = "Failed to fetch KPIs"
          /\ loading' = FALSE
          /\ last' = [ev |-> "failed", task |-> tasks[s]]
          /\ UNCHANGED <<kpis, lastUpdated, now>>
  /\ tasks' = [tasks EXCEPT ![s] = Idle]
  /\ requests' = requests + Attempts(tasks[s].response.ok)
  /\ UNCHANGED <<selectedTrains, activeFilters, auditStorage, exchange, chatCalls, recommendations, auditLogs, trains, predictions, chatSessions, calls, posts, contributed, settledFetches>>

\* ------------------------------------------------------------ runSimulation
\* set({loading, error}); await simulatorService.runWhatIfScenario(payload)
runSimulation ==
  /\ CanCall
  /\ \E r \in SimResponses :
       LET task == [op |-> "runSimulation", phase |-> "simulate",
                    trainId |-> "train-001", response |-> r]
       IN /\ tasks' = [tasks EXCEPT ![FreeSlot] = task]
          /\ last' = [ev |-> "issued", task |-> task]
  /\ loading' = TRUE
  /\ error' = NullError
  /\ calls' = calls + 1
  /\ UNCHANGED <<selectedTrains, activeFilters, auditStorage, exchange, requests, chatCalls, predictions, kpis, chatSessions, recommendations, auditLogs, trains, now, posts, contributed, settledFetches, lastUpdated>>

\* simulatorAdapter.runWhatIfScenario: the response data, or the default result
runWhatIfScenario(response, clock) ==
  IF response = "ok"
  THEN [scenarioId |-> "scenario-001", safety |-> "high"]
  ELSE [scenarioId |-> <<"sim", clock>>, safety |-> "unknown"]

\* variant: the audit entry is posted only when the simulator call succeeded
SimulationPostAudit_SkipsOnFailure(s) ==
  /\ tasks[s].op = "runSimulation"
  /\ tasks[s].phase = "simulate"
  /\ \E t \in (IF tasks[s].response = "ok" THEN {now} ELSE Readings) :
     LET result == runWhatIfScenario(tasks[s].response, t)
         auditLog == createAuditLog("What-If Simulation Executed", "System User",
                                    [results |-> result], tasks[s].trainId, NoValue,
                                    <<"Simulated scenario: ", "Unnamed scenario">>)
         task == [op |-> "runSimulation", phase |-> "audit",
                  trainId |-> tasks[s].trainId, result |-> result, auditLog |-> auditLog]
     IN /\ now' = t
        /\ tasks' = [tasks EXCEPT ![s] = task]
        /\ last' = [ev |-> "posting", task |-> task]
  /\ posts' = posts + (IF tasks[s].response = "ok" THEN 1 ELSE 0)
  /\ requests' = requests + Attempts(tasks[s].response = "ok")
  /\ UNCHANGED <<selectedTrains, activeFilters, auditStorage, exchange, chatCalls, predictions, kpis, chatSessions, recommendations, auditLogs, trains, loading, error, calls, contributed, settledFetches, lastUpdated>>

\* the simulator call settled: build the audit entry and await postAudit
SimulationPostAudit(s) ==
  /\ tasks[s].op = "runSimulation"
  /\ tasks[s].phase = "simulate"
  /\ \E t \in (IF tasks[s].response = "ok" THEN {now} ELSE Readings) :
     LET result == runWhatIfScenario(tasks[s].response, t)
         auditLog == createAuditLog("What-If Simulation Executed", "System User",
                                    [results |-> result], tasks[s].trainId, NoValue,
                                    <<"Simulated scenario: ", "Unnamed scenario">>)
         task == [op |-> "runSimulation", phase |-> "audit",
                  trainId |-> tasks[s].trainId, result |-> result, auditLog |-> auditLog]
     IN /\ now' = t
        /\ tasks' = [tasks EXCEPT ![s] = task]
        /\ last' = [ev |-> "posting", task |-> task]
  /\ posts' = posts + 1
  /\ requests' = requests + Attempts(tasks[s].response = "ok")
  /\ UNCHANGED <<selectedTrains, activeFilters, auditStorage, exchange, chatCalls, predictions, kpis, chatSessions, recommendations, auditLogs, trains, loading, error, calls, contributed, settledFetches, lastUpdated>>

\* variant: the commit writes a log that holds the new entry only
SimulationCommit_ReplacesLog(s) ==
  /\ tasks[s].op = "runSimulation"
  /\ tasks[s].phase = "audit"
  /\ \E t \in Readings :
       /\ now' = t
       /\ auditLogs' = << StoredEntry(tasks[s].auditLog, t) >>
  /\ loading' = FALSE
  /\ tasks' = [tasks EXCEPT ![s] = Idle]
  /\ last' = [ev |-> "resolved", task |-> tasks[s], returns |-> tasks[s].result]
  /\ contributed' = contributed + 1
  /\ requests' = requests + Attempts(TRUE)
  /\ UNCHANGED <<selectedTrains, activeFilters, auditStorage, exchange, chatCalls, predictions, kpis, chatSessions, recommendations, trains, error, calls, posts, settledFetches, lastUpdated>>

\* postAudit resolved: set(state => ...) reads the Store at commit time
SimulationCommit(s) ==
  /\ tasks[s].op = "runSimulation"
  /\ tasks[s].phase = "audit"
  /\ \E t \in Readings :
       /\ now' = t
       /\ auditLogs' = << StoredEntry(tasks[s].auditLog, t) >> \o auditLogs
  /\ loading' = FALSE
  /\ tasks' = [tasks EXCEPT ![s] = Idle]
  /\ last' = [ev |-> "resolved", task |-> tasks[s], returns |-> tasks[s].result]
  /\ contributed' = contributed + 1
  /\ requests' = requests + Attempts(TRUE)
  /\ UNCHANGED <<selectedTrains, activeFilters, auditStorage, exchange, chatCalls, predictions, kpis, chatSessions, recommendations, trains, error, calls, posts, settledFetches, lastUpdated>>

\* variant: the entry is added to auditLogs although postAudit rejected
SimulationFail_Commits(s) ==
  /\ tasks[s].op = "runSimulation"
  /\ tasks[s].phase = "audit"
  /\ auditLogs' = << StoredEntry(tasks[s].auditLog, now) >> \o auditLogs
  /\ error' = "Failed to run simulation"
  /\ loading' = FALSE
  /\ tasks' = [tasks EXCEPT ![s] = Idle]
  /\ last' = [ev |-> "rejected", task |-> tasks[s]]
  /\ requests' = requests + Attempts(FALSE)
  /\ UNCHANGED <<selectedTrains, activeFilters, auditStorage, exchange, chatCalls, predictions, kpis, chatSessions, recommendations, trains, now, calls, posts, contributed, settledFetches, lastUpdated>>

\* postAudit rejected: the catch block, which rethrows
SimulationFail(s) ==
  /\ tasks[s].op = "runSimulation"
  /\ tasks[s].phase = "audit"
  /\ error' = "Failed to run simulation"
  /\ loading' = FALSE
  /\ tasks' = [tasks EXCEPT ![s] = Idle]
  /\ last' = [ev |-> "rejected", task |-> tasks[s]]
  /\ requests' = requests + Attempts(FALSE)
  /\ UNCHANGED <<selectedTrains, activeFilters, auditStorage, exchange, chatCalls, predictions, kpis, chatSessions, recommendations, auditLogs, trains, now, calls, posts, contributed, settledFetches, lastUpdated>>

\* ------------------------------------------------------------- chat actions
\* chatSessions.find(s => s.sessionId === sessionId): index of the first, or 0
FindSession(list, sessionId) ==
  IF \E i \in 1..Len(list) : list[i].sessionId = sessionId
  THEN CHOOSE i \in 1..Len(list) :
         /\ list[i].sessionId = sessionId
         /\ \A j \in 1..(i - 1) : list[j].sessionId # sessionId
  ELSE 0

\* a ChatSession without messages
NewSession(sessionId, clock) ==
  [sessionId |-> sessionId, messages |-> << >>, createdAt |-> clock, lastActive |-> clock]

\* createChatSession: synchronous, the id is built from the clock and a random
createChatSession ==
  /\ calls < MaxCalls
  /\ \E t \in Readings, r \in Randoms :
       LET sessionId == <<"session", t, r>> IN
         /\ now' = t
         /\ chatSessions' = Append(chatSessions, NewSession(sessionId, t))
         /\ last' = [ev |-> "created", returns |-> sessionId]
  /\ calls' = calls + 1
  /\ UNCHANGED <<selectedTrains, activeFilters, auditStorage, exchange, requests, recommendations, auditLogs, trains, predictions, kpis, loading, error, lastUpdated, tasks, posts, contributed, settledFetches, chatCalls>>

\* the selector state => state.chatSessions[0]; undefined for an empty list
useActiveChatSession ==
  IF chatSessions = << >> THEN [sessionId |-> NoValue] ELSE chatSessions[1]

\* variant: every session of the list is replaced
ReplaceSession_Every(list, sessionId, session) ==
  [i \in 1..Len(list) |-> session]

\* state.chatSessions.map(s => s.sessionId === sessionId ? session : s)
ReplaceSession(list, sessionId, session) ==
  [i \in 1..Len(list) |-> IF list[i].sessionId = sessionId THEN session ELSE list[i]]

\* variant: the user message is held back until the reply arrives
UpdatedSession_Deferred(session, userMessage, clock) ==
  [session EXCEPT !.lastActive = clock]

\* { ...session, messages: [...session.messages, userMessage], lastActive }
UpdatedSession(session, userMessage, clock) ==
  [session EXCEPT !.messages = Append(@, userMessage), !.lastActive = clock]

\* variant: a session that is not in the Store is used in memory only
CommitUserMessage_KnownOnly(list, sessionId, updatedSession) ==
  ReplaceSession(list, sessionId, updatedSession)

\* state.chatSessions.some(...) ? state.chatSessions.map(...)
\*                              : [...state.chatSessions, updatedSession]
CommitUserMessage(list, sessionId, updatedSession) ==
  IF \E k \in 1..Len(list) : list[k].sessionId = sessionId
  THEN ReplaceSession(list, sessionId, updatedSession)
  ELSE Append(list, updatedSession)

\* sendChatMessage up to its await: the user message is stored, then the
\* request is sent
sendChatMessage(sessionId, text) ==
  /\ CanCall
  /\ \E t \in Readings, r \in ChatResponses :
       LET i == FindSession(chatSessions, sessionId)
           session == IF i # 0 THEN chatSessions[i] ELSE NewSession(sessionId, t)
           userMessage == [id |-> <<"msg", t, "user">>, role |-> "user",
                           text |-> text, timestamp |-> t]
           updatedSession == UpdatedSession(session, userMessage, t)
           task == [op |-> "sendChatMessage", sessionId |-> sessionId, text |-> text,
                    updatedSession |-> updatedSession, response |-> r]
       IN /\ now' = t
          /\ chatSessions' = CommitUserMessage(chatSessions, sessionId, updatedSession)
          /\ tasks' = [tasks EXCEPT ![FreeSlot] = task]
          /\ last' = [ev |-> "sent", task |-> task]
  /\ chatCalls' = Append(chatCalls, [sessionId |-> sessionId, text |-> text])
  /\ calls' = calls + 1
  /\ UNCHANGED <<selectedTrains, activeFilters, auditStorage, exchange, requests, recommendations, auditLogs, trains, predictions, kpis, loading, error, lastUpdated, posts, contributed, settledFetches>>

\* chatbotAdapter.sendChatMessage: the reply list of the response, or one
\* apology message when the request failed
chatbotService_sendChatMessage(response, clock) ==
  IF response.kind = "data" THEN response.data
  ELSE << [id |-> <<"error", clock>>, role |-> "assistant",
           text |-> "I apologize, but I'm experiencing technical difficulties.",
           timestamp |-> clock] >>

\* the adapter returned a list: the session is replaced by finalSession,
\* built from the updatedSession of the call
ChatRespond(s) ==
  /\ tasks[s].op = "sendChatMessage"
  /\ tasks[s].response.kind # "nodata"
  /\ \E t \in (IF tasks[s].response.kind = "data" THEN {now} ELSE Readings) :
       LET responses == chatbotService_sendChatMessage(tasks[s].response, t)
           finalSession == [tasks[s].updatedSession EXCEPT
                              !.messages = @ \o responses, !.lastActive = t]
       IN /\ now' = t
          /\ chatSessions' = ReplaceSession(chatSessions, tasks[s].sessionId, finalSession)
  /\ tasks' = [tasks EXCEPT ![s] = Idle]
  /\ last' = [ev |-> "replied", task |-> tasks[s]]
  /\ requests' = requests + Attempts(tasks[s].response.kind = "data")
  /\ UNCHANGED <<selectedTrains, activeFilters, auditStorage, exchange, recommendations, auditLogs, trains, predictions, kpis, loading, error, lastUpdated, calls, posts, contributed, settledFetches, chatCalls>>

\* variant: the catch block reports the failure in the Store-wide error
ChatCatch_SetsError(s) ==
  /\ tasks[s].op = "sendChatMessage"
  /\ tasks[s].response.kind = "nodata"
  /\ \E t \in Readings :
       LET errorMessage == [id |-> <<"msg", t, "error">>, role |-> "assistant",
                            text |-> "Sorry, I encountered an error processing your message. Please try again.",
                            timestamp |-> t]
       IN /\ now' = t
          /\ chatSessions' =
               [i \in 1..Len(chatSessions) |->
                  IF chatSessions[i].sessionId = tasks[s].sessionId
                  THEN [chatSessions[i] EXCEPT !.messages = Append(@, errorMessage)]
                  ELSE chatSessions[i]]
  /\ error' = "Failed to send chat message"
  /\ tasks' = [tasks EXCEPT ![s] = Idle]
  /\ last' = [ev |-> "replied", task |-> tasks[s]]
  /\ requests' = requests + Attempts(TRUE)
  /\ UNCHANGED <<selectedTrains, activeFilters, auditStorage, exchange, recommendations, auditLogs, trains, predictions, kpis, loading, lastUpdated, calls, posts, contributed, settledFetches, chatCalls>>

\* the adapter returned no list: spreading it throws, and the catch block
\* appends one error message to the session as it is in the Store
ChatCatch(s) ==
  /\ tasks[s].op = "sendChatMessage"
  /\ tasks[s].response.kind = "nodata"
  /\ \E t \in Readings :
       LET errorMessage == [id |-> <<"msg", t, "error">>, role |-> "assistant",
                            text |-> "Sorry, I encountered an error processing your message. Please try again.",
                            timestamp |-> t]
       IN /\ now' = t
          /\ chatSessions' =
               [i \in 1..Len(chatSessions) |->
                  IF chatSessions[i].sessionId = tasks[s].sessionId
                  THEN [chatSessions[i] EXCEPT !.messages = Append(@, errorMessage)]
                  ELSE chatSessions[i]]
  /\ tasks' = [tasks EXCEPT ![s] = Idle]
  /\ last' = [ev |-> "replied", task |-> tasks[s]]
  /\ requests' = requests + Attempts(TRUE)
  /\ UNCHANGED <<selectedTrains, activeFilters, auditStorage, exchange, recommendations, auditLogs, trains, predictions, kpis, loading, error, lastUpdated, calls, posts, contributed, settledFetches, chatCalls>>

\* ------------------------------------------------- apiFetch's request
\* object spread { ...a, ...b }: the keys of both, b's value where both have one
Spread(a, b) == [k \in DOMAIN a \cup DOMAIN b |-> IF k \in DOMAIN b THEN b[k] ELSE a[k]]

JsonHeader == [k \in {"Content-Type"} |-> "application/json"]

\* header objects a caller can pass in options.headers
CallerHeaders ==
  {<< >>,
   [Authorization |-> "Bearer token"],
   [Accept |-> "text/csv"],
   [Authorization |-> "Bearer token", Accept |-> "text/csv"],
   [k \in {"Content-Type"} |-> "text/plain"]}

\* the options of apiGet, apiPost, apiPut and apiDelete, and the same with
\* headers added by a caller of apiFetch
RequestOptions ==
  LET helpers == {[method |-> "GET"], [method |-> "DELETE"], [method |-> "POST", body |-> "{}"],
                  [method |-> "PUT", body |-> "{}"]}
  IN helpers \cup {Spread(o, [headers |-> h]) : o \in helpers, h \in CallerHeaders}

\* { headers: { 'Content-Type': 'application/json', ...options.headers }, ...options }
defaultOptions(options) ==
  Spread([headers |-> Spread(JsonHeader,
                             IF "headers" \in DOMAIN options THEN options.headers ELSE << >>)],
         options)

\* one call of apiFetch(url, options) against a server answering with outcome
TransportCall(options, outcome) ==
  /\ exchange' = [op |-> "apiFetch", options |-> options, sent |-> defaultOptions(options),
                  transport |-> apiFetch(outcome)]
  /\ last' = [ev |-> "transport call"]
  /\ UNCHANGED <<recommendations, auditLogs, trains, predictions, kpis, chatSessions, loading, error, lastUpdated, tasks, now, calls, posts, contributed, settledFetches, chatCalls, selectedTrains, activeFilters, auditStorage, requests>>

\* ------------------------------------------------------- Domain Adapters
\* what the catch block of each adapter operation does with a rejected
\* transport call: "default" returns a value, "rethrow" throws the error on
simulatorService ==
  [runWhatIfScenario |-> "default", runBatchSimulation |-> "default",
   getSimulationComparison |-> "default", getHistoricalSimulations |-> "default",
   validateSimulationModel |-> "default", getSimulatorStatus |-> "default"]

auditService ==
  [postAudit |-> "rethrow", getAudit |-> "default", getAuditAnalytics |-> "default",
   exportAuditData |-> "rethrow", verifyAuditIntegrity |-> "default",
   getComplianceReport |-> "rethrow"]

optimizerService ==
  [getRecommendations |-> "default", getTargetedRecommendations |-> "default",
   getAlternatives |-> "default", evaluateRecommendationImpact |-> "default",
   getOptimizerMetrics |-> "default", updateOptimizerConfig |-> "default"]

predictionService ==
  [getPredictionsForTrains |-> "default", getPredictionForTrain |-> "default",
   getContextualPredictions |-> "default", updatePredictionModel |-> "default",
   getPredictionModelMetrics |-> "default"]

chatbotService ==
  [sendChatMessage |-> "default", getChatHistory |-> "default",
   createChatSession |-> "default", processChatIntent |-> "default",
   getSuggestedQuestions |-> "default", simulateFromChat |-> "rethrow",
   getChatAnalytics |-> "default"]

Services ==
  {simulatorService, auditService, optimizerService, predictionService, chatbotService}

AdapterOps == UNION {DOMAIN service : service \in Services}

OnFailure(op) == (CHOOSE service \in Services : op \in DOMAIN service)[op]

\* the settlement of an adapter operation, given that of its transport call
AdapterResult(op, transport) ==
  IF transport.settled = "resolved" THEN [settled |-> "resolved", value |-> "data"]
  ELSE IF OnFailure(op) = "rethrow" THEN [settled |-> "rejected", error |-> transport.error]
  ELSE [settled |-> "resolved", value |-> "default"]

\* one call of an adapter operation against a server answering with outcome
AdapterCall(op, outcome) ==
  /\ exchange' = [op |-> op, outcome |-> outcome, transport |-> apiFetch(outcome),
                  result |-> AdapterResult(op, apiFetch(outcome))]
  /\ last' = [ev |-> "adapter call"]
  /\ UNCHANGED <<recommendations, auditLogs, trains, predictions, kpis, chatSessions, loading, error, lastUpdated, tasks, now, calls, posts, contributed, settledFetches, chatCalls, selectedTrains, activeFilters, auditStorage, requests>>

\* ------------------------------------------------------ /audit endpoint
\* the entries kept in memory by the route
StorageCap == 1000

\* request bodies of POST /audit: one that does not parse, one without an
\* action, those built by postAudit (id and timestamp of the client's clock)
\* and those of a client that leaves id and timestamp to the server
AuditBodies ==
  {[malformed |-> TRUE]}
    \cup {[action |-> "", actor |-> "Controller"]}
    \cup {[action |-> a, actor |-> "Controller", recId |-> "rec-001",
           reason |-> "Safety concern", id |-> <<"audit", t, 1>>, timestamp |-> t] :
            a \in {"Recommendation Accepted", "Recommendation Rejected"}, t \in 0..MaxClock}
    \cup {[action |-> a, actor |-> "Controller", trainId |-> "train-002"] :
            a \in {"Recommendation Accepted", "Simulation Run"}}

\* the query strings of GET /audit
NoFilters == << >>
AuditQueries ==
  {NoFilters, [startDate |-> 1], [endDate |-> 0], [trainIds |-> {"train-001"}],
   [actors |-> {"Controller"}], [actions |-> {"Recommendation"}]}

\* String.prototype.includes over the strings of the model
Includes(string, part) ==
  \/ string = part
  \/ <<string, part>> \in
       {<<"Recommendation Accepted", "Recommendation">>,
        <<"Recommendation Rejected", "Recommendation">>,
        <<"Recommendation Generated", "Recommendation">>}

Field(object, key) == IF key \in DOMAIN object THEN object[key] ELSE NoValue

\* Array.prototype.sort with (a, b) => b.timestamp - a.timestamp: stable,
\* latest timestamp first
RECURSIVE InsertByTimestamp(_, _)
InsertByTimestamp(log, sorted) ==
  IF sorted = << >> THEN << log >>
  ELSE IF Head(sorted).timestamp >= log.timestamp
       THEN << Head(sorted) >> \o InsertByTimestamp(log, Tail(sorted))
       ELSE << log >> \o sorted

RECURSIVE SortByTimestamp(_)
SortByTimestamp(logs) ==
  IF logs = << >> THEN << >>
  ELSE InsertByTimestamp(logs[Len(logs)], SortByTimestamp(SubSeq(logs, 1, Len(logs) - 1)))

\* the data of a GET /audit response
AuditList(storage, query) ==
  LET Passes(log) ==
        /\ "startDate" \in DOMAIN query => log.timestamp >= query.startDate
        /\ "endDate" \in DOMAIN query => log.timestamp <= query.endDate
        /\ "trainIds" \in DOMAIN query =>
             IF log.trainId = NoValue THEN FALSE ELSE log.trainId \in query.trainIds
        /\ "actors" \in DOMAIN query => \E actor \in query.actors : Includes(log.actor, actor)
        /\ "actions" \in DOMAIN query => \E action \in query.actions : Includes(log.action, action)
  IN SortByTimestamp(SelectSeq(storage, Passes))

AuditGET(query) ==
  /\ exchange' = [op |-> "GET /audit", query |-> query, status |-> 200,
                  data |-> AuditList(auditStorage, query)]
  /\ last' = [ev |-> "audit listed"]
  /\ UNCHANGED <<recommendations, auditLogs, trains, predictions, kpis, chatSessions, loading, error, lastUpdated, tasks, now, calls, posts, contributed, settledFetches, chatCalls, selectedTrains, activeFilters, auditStorage, requests>>

AuditPOST(body) ==
  /\ Len(auditStorage) < Len(mockAuditLogs) + MaxCalls
  /\ \E clock \in Readings, random \in Randoms :
       /\ now' = clock
       /\ IF "malformed" \in DOMAIN body
          THEN /\ exchange' = [op |-> "POST /audit", body |-> body, status |-> 500]
               /\ UNCHANGED auditStorage
          ELSE IF body.action = "" \/ body.actor = ""
          THEN /\ exchange' = [op |-> "POST /audit", body |-> body, status |-> 400]
               /\ UNCHANGED auditStorage
          ELSE LET auditLog ==
                     [id |-> IF "id" \in DOMAIN body THEN body.id ELSE <<"audit", clock, random>>,
                      timestamp |-> IF "timestamp" \in DOMAIN body THEN body.timestamp ELSE clock,
                      action |-> body.action,
                      actor |-> body.actor,
                      trainId |-> Field(body, "trainId"),
                      recId |-> Field(body, "recId"),
                      reason |-> Field(body, "reason"),
                      details |-> Field(body, "details"),
                      outcome |-> IF "outcome" \in DOMAIN body THEN body.outcome ELSE "success"]
                   stored == << auditLog >> \o auditStorage
               IN /\ auditStorage' = IF Len(stored) > StorageCap
                                     THEN SubSeq(stored, 1, StorageCap) ELSE stored
                  /\ exchange' = [op |-> "POST /audit", body |-> body, status |-> 200,
                                  data |-> [id |-> auditLog.id]]
  /\ last' = [ev |-> "audit posted"]
  /\ UNCHANGED <<recommendations, auditLogs, trains, predictions, kpis, chatSessions, loading, error, lastUpdated, tasks, calls, posts, contributed, settledFetches, chatCalls, selectedTrains, activeFilters, requests>>

\* ------------------------------------------------- UI actions, persistence
\* the values the pages pass to setSelectedTrains and setActiveFilters
TrainSelections == { << >>, << "train-001" >> }
FilterStates == { << >>, [trainIds |-> << "train-001" >>] }

setSelectedTrains(trainIds) ==
  /\ selectedTrains' = trainIds
  /\ last' = [ev |-> "set"]
  /\ UNCHANGED <<recommendations, auditLogs, trains, predictions, kpis, chatSessions, loading, error, lastUpdated, tasks, now, calls, posts, contributed, settledFetches, chatCalls, activeFilters, auditStorage, exchange, requests>>

setActiveFilters(filters) ==
  /\ activeFilters' = filters
  /\ last' = [ev |-> "set"]
  /\ UNCHANGED <<recommendations, auditLogs, trains, predictions, kpis, chatSessions, loading, error, lastUpdated, tasks, now, calls, posts, contributed, settledFetches, chatCalls, selectedTrains, auditStorage, exchange, requests>>

\* the state part of the Store
StoreState ==
  [trains |-> trains, recommendations |-> recommendations, predictions |-> predictions,
   auditLogs |-> auditLogs, kpis |-> kpis, chatSessions |-> chatSessions,
   loading |-> loading, error |-> error, selectedTrains |-> selectedTrains,
   activeFilters |-> activeFilters, lastUpdated |-> lastUpdated]

\* the state create() builds before anything is restored
InitialState ==
  [trains |-> << >>, recommendations |-> << >>, predictions |-> << >>,
   auditLogs |-> << >>, kpis |-> << >>, chatSessions |-> << >>,
   loading |-> FALSE, error |-> NullError, selectedTrains |-> << >>,
   activeFilters |-> << >>, lastUpdated |-> << >>]

\* variant: the audit log is persisted with the other collections
partialize_WithAuditLogs(state) ==
  [trains |-> state.trains, recommendations |-> state.recommendations,
   predictions |-> state.predictions, kpis |-> state.kpis,
   auditLogs |-> state.auditLogs,
   selectedTrains |-> state.selectedTrains, activeFilters |-> state.activeFilters,
   lastUpdated |-> state.lastUpdated]

\* persist's partialize: what is written to storage after every set()
partialize(state) ==
  [trains |-> state.trains, recommendations |-> state.recommendations,
   predictions |-> state.predictions, kpis |-> state.kpis,
   selectedTrains |-> state.selectedTrains, activeFilters |-> state.activeFilters,
   lastUpdated |-> state.lastUpdated]

\* persist's default merge on rehydration: { ...currentState, ...persistedState }
merge(persistedState, currentState) ==
  [k \in DOMAIN currentState |->
     IF k \in DOMAIN persistedState THEN persistedState[k] ELSE currentState[k]]

\* the page is reloaded: a fresh Store is created and the stored snapshot is
\* merged into it; the invocations in flight are gone
Restart ==
  LET hydrated == merge(partialize(StoreState), InitialState) IN
    /\ trains' = hydrated.trains
    /\ recommendations' = hydrated.recommendations
    /\ predictions' = hydrated.predictions
    /\ auditLogs' = hydrated.auditLogs
    /\ kpis' = hydrated.kpis
    /\ chatSessions' = hydrated.chatSessions
    /\ loading' = hydrated.loading
    /\ error' = hydrated.error
    /\ selectedTrains' = hydrated.selectedTrains
    /\ activeFilters' = hydrated.activeFilters
    /\ lastUpdated' = hydrated.lastUpdated
    /\ tasks' = [s \in Slots |-> Idle]
    /\ contributed' = 0
    /\ chatCalls' = << >>
    /\ last' = [ev |-> "restarted", before |-> StoreState]
    /\ UNCHANGED <<now, calls, posts, settledFetches, auditStorage, exchange, requests>>

\* -------------------------------------------------------------------- Next
Next ==
  \/ \E id \in RecIds : acceptRecommendation(id)
  \/ \E id \in RecIds, a \in AltIds : overrideRecommendation(id, a)
  \/ \E id \in RecIds, r \in Reasons : rejectRecommendation(id, r)
  \/ \E s \in Slots : DecisionCommit(s)
  \/ \E s \in Slots : DecisionFail(s)
  \/ fetchRecommendations
  \/ fetchAuditLogs
  \/ \E s \in Slots : FetchRecommendationsSettle(s)
  \/ \E s \in Slots : FetchAuditLogsSettle(s)
  \/ runSimulation
  \/ \E s \in Slots : SimulationPostAudit(s)
  \/ \E s \in Slots : SimulationCommit(s)
  \/ \E s \in Slots : SimulationFail(s)

Spec == Init /\ [][Next]_vars

\* the five fetch actions alone: overlapping fetches of the same collection
\* and of different collections
NextFetch ==
  \/ fetchTrains
  \/ fetchRecommendations
  \/ fetchPredictions
  \/ fetchKpis
  \/ fetchAuditLogs
  \/ \E s \in Slots : FetchTrainsSettle(s)
  \/ \E s \in Slots : FetchRecommendationsSettle(s)
  \/ \E s \in Slots : FetchPredictionsSettle(s)
  \/ \E s \in Slots : FetchKpisSettle(s)
  \/ \E s \in Slots : FetchAuditLogsSettle(s)

SpecFetch == Init /\ [][NextFetch]_vars

\* the Store without fetchAuditLogs: auditLogs changes by commits only
NextDecide ==
  \/ \E id \in RecIds : acceptRecommendation(id)
  \/ \E id \in RecIds, a \in AltIds : overrideRecommendation(id, a)
  \/ \E id \in RecIds, r \in Reasons : rejectRecommendation(id, r)
  \/ \E s \in Slots : DecisionCommit(s)
  \/ \E s \in Slots : DecisionFail(s)
  \/ fetchRecommendations
  \/ \E s \in Slots : FetchRecommendationsSettle(s)
  \/ runSimulation
  \/ \E s \in Slots : SimulationPostAudit(s)
  \/ \E s \in Slots : SimulationCommit(s)
  \/ \E s \in Slots : SimulationFail(s)

SpecDecide == Init /\ [][NextDecide]_vars

\* the chat actions, next to a fetch action that writes loading and error
NextChat ==
  \/ createChatSession
  \/ \E id \in ChatSessionIds, text \in Texts : sendChatMessage(id, text)
  \/ \E s \in Slots : ChatRespond(s)
  \/ \E s \in Slots : ChatCatch(s)
  \/ fetchKpis
  \/ \E s \in Slots : FetchKpisSettle(s)

\* the Store at its first start: nothing persisted
InitChat == Init /\ recommendations = << >>

SpecChat == InitChat /\ [][NextChat]_vars

\* runSimulation next to a decision action and a reload of the audit log
NextSimulate ==
  \/ runSimulation
  \/ \E s \in Slots : SimulationPostAudit(s)
  \/ \E s \in Slots : SimulationCommit(s)
  \/ \E s \in Slots : SimulationFail(s)
  \/ \E id \in RecIds : acceptRecommendation(id)
  \/ \E s \in Slots : DecisionCommit(s)
  \/ \E s \in Slots : DecisionFail(s)
  \/ fetchAuditLogs
  \/ \E s \in Slots : FetchAuditLogsSettle(s)

SpecSimulate == Init /\ [][NextSimulate]_vars

\* the Store with its UI setters, a decision, a fetch, a chat session and
\* reloads of the page
NextPersist ==
  \/ \E ids \in TrainSelections : setSelectedTrains(ids)
  \/ \E f \in FilterStates : setActiveFilters(f)
  \/ \E id \in RecIds : acceptRecommendation(id)
  \/ \E s \in Slots : DecisionCommit(s)
  \/ \E s \in Slots : DecisionFail(s)
  \/ fetchKpis
  \/ \E s \in Slots : FetchKpisSettle(s)
  \/ createChatSession
  \/ Restart

SpecPersist == Init /\ [][NextPersist]_vars

\* the adapter operations called directly, every answer of the server tried
NextAdapters == \E op \in AdapterOps, outcome \in HttpOutcomes : AdapterCall(op, outcome)

SpecAdapters == Init /\ [][NextAdapters]_vars

\* the /audit route serving its clients
NextAudit ==
  \/ \E body \in AuditBodies : AuditPOST(body)
  \/ \E query \in AuditQueries : AuditGET(query)

SpecAudit == Init /\ [][NextAudit]_vars

\* the commits of two fetch actions and of the decision actions, interleaved
NextCommit ==
  \/ fetchTrains
  \/ fetchRecommendations
  \/ \E s \in Slots : FetchTrainsSettle(s)
  \/ \E s \in Slots : FetchRecommendationsSettle(s)
  \/ \E id \in RecIds : acceptRecommendation(id)
  \/ \E id \in RecIds, r \in Reasons : rejectRecommendation(id, r)
  \/ \E s \in Slots : DecisionCommit(s)
  \/ \E s \in Slots : DecisionFail(s)

SpecCommit == Init /\ [][NextCommit]_vars

\* apiFetch called with every kind of options, every answer of the server tried
NextTransport ==
  \E options \in RequestOptions, outcome \in HttpOutcomes : TransportCall(options, outcome)

SpecTransport == Init /\ [][NextTransport]_vars

\* ------------------------------------------------------------ properties
Has(list, id) == FindIndex(list, id) # 0
Target(list, id) == list[FindIndex(list, id)]
Decided == {"accepted", "rejected"}
AllIdle == \A s \in Slots : tasks[s] = Idle
Resolved(op) == last.ev = "resolved" /\ last.task.op = op
DecisionResolved == last.ev = "resolved" /\ IsDecision(last.task)
DecisionRejected == last.ev = "rejected" /\ IsDecision(last.task)
\* the Recommendation a settled decision was called on, as it was at the call
Before == Target(last.task.state.recommendations, last.task.recId)
\* the same Recommendation in the Store now
After == Target(recommendations, last.task.recId)

C2_FailureLeavesStore ==
  [][\A s \in Slots :
       (IsDecision(tasks[s]) /\ tasks'[s] = Idle /\ last'.ev = "rejected") =>
         /\ recommendations' = recommendations
         /\ auditLogs' = auditLogs
         /\ error' # NullError
         /\ loading' = FALSE]_vars

C2_Witness ==
  /\ DecisionRejected
  /\ Has(recommendations, last.task.recId)
  /\ After.status = "pending"
  /\ error # NullError

\* C3 (as stated): a Recommendation seen accepted or rejected is never seen
\* pending in a later state.
C3_Original ==
  [][\A i \in 1..Len(recommendations) :
       recommendations[i].status \in Decided =>
         \A j \in 1..Len(recommendations') :
           recommendations'[j].id = recommendations[i].id =>
             recommendations'[j].status # "pending"]_vars

\* C4 (as stated): once everything in flight has settled, auditLogs holds one
\* entry for every resolved decision (and simulation) since its last fetch.
C4_Original == AllIdle => Len(auditLogs) = contributed

\* C5 (as stated): auditLogs is append-only: every step keeps the entries it
\* found, in order, and puts new entries at the head.
C5_Original ==
  [][\E k \in 0..Len(auditLogs') :
       SubSeq(auditLogs', k + 1, Len(auditLogs')) = auditLogs]_vars

\* C6: after acceptRecommendation(id) resolves, the Recommendation is
\* accepted, its action text is the one it had when the action was called,
\* and the head of auditLogs has recId = id.
C6_AcceptPostcondition ==
  Resolved("accept") =>
    /\ Has(recommendations, last.task.recId)
    /\ After.status = "accepted"
    /\ After.action = Before.action
    /\ Len(auditLogs) > 0
    /\ auditLogs[1].recId = last.task.recId

C6_Witness ==
  /\ Resolved("accept")
  /\ After.status = "accepted"
  /\ Before.status = "pending"

\* C7: after overrideRecommendation(id, altId) resolves, the Recommendation
\* is accepted, its action is the action of the Alternative altId attached to
\* it, and the head of auditLogs records the original and the selected action.
C7_OverridePostcondition ==
  Resolved("override") =>
    LET alt == Target(Before.alternatives, last.task.altId) IN
      /\ Has(recommendations, last.task.recId)
      /\ Has(Before.alternatives, last.task.altId)
      /\ After.status = "accepted"
      /\ After.action = alt.action
      /\ Len(auditLogs) > 0
      /\ auditLogs[1].recId = last.task.recId
      /\ auditLogs[1].details.originalAction = Before.action
      /\ auditLogs[1].details.selectedAction = alt.action

C7_Witness ==
  /\ Resolved("override")
  /\ After.action = "Reroute via Oxford"
  /\ auditLogs[1].details.originalAction = "Implement dynamic rerouting for IC-2847"

\* C8: after rejectRecommendation(id, r) on a pending Recommendation
\* resolves, the Recommendation is rejected with its action text unchanged,
\* and auditLogs is one entry longer than when the action was called, the
\* new entry having recId = id and reason = r.
C8_RejectPostcondition ==
  (Resolved("reject") /\ Before.status = "pending") =>
    /\ Has(recommendations, last.task.recId)
    /\ After.status = "rejected"
    /\ After.action = Before.action
    /\ Len(auditLogs) = Len(last.task.state.auditLogs) + 1
    /\ Tail(auditLogs) = last.task.state.auditLogs
    /\ auditLogs[1].recId = last.task.recId
    /\ auditLogs[1].reason = last.task.reason

C8_Witness ==
  /\ Resolved("reject")
  /\ Before.status = "pending"
  /\ last.task.reason = "Safety concern"
  /\ auditLogs[1].reason = "Safety concern"

\* C9: a decision action whose Recommendation (or Alternative) is not found
\* throws without changing the Store, starting a request or calling postAudit.
C9_NotFoundNoEffect ==
  [][last'.ev = "thrown" =>
       UNCHANGED <<recommendations, auditLogs, trains, loading, error, tasks, posts, lastUpdated>>]_vars

\* both Recommendations are in the Store, so what was not found is the
\* Alternative: alt-001 is not attached to rec-002
C9_Witness ==
  /\ last.ev = "thrown"
  /\ Len(recommendations) = 2
  /\ ~Has(Target(recommendations, "rec-002").alternatives, "alt-001")

\* C10: trains is the payload of the fetchTrains response that settled last
\* among the successful ones, whatever the order of the calls.
C10_LastSettledWins ==
  \A k \in 1..Len(settledFetches) :
    ( /\ settledFetches[k].response.ok
      /\ \A m \in (k + 1)..Len(settledFetches) : ~settledFetches[m].response.ok )
    => trains = settledFetches[k].response.data

C10_Witness ==
  /\ AllIdle
  /\ Len(settledFetches) = 2
  /\ settledFetches[1].response.ok
  /\ settledFetches[2].response.ok
  /\ settledFetches[1].seq > settledFetches[2].seq
  /\ settledFetches[1].response.data # settledFetches[2].response.data
  /\ trains = settledFetches[2].response.data

\* the invocations of fetch, decision and simulation actions in flight
InFlight(s) == tasks[s] # Idle /\ tasks[s].op # "sendChatMessage"

\* C11: the step that settles a fetch, decision or simulation action sets
\* loading to false, and loading is false whenever none of them is in flight.
C11_SettleClearsLoading ==
  /\ []((\A s \in Slots : ~InFlight(s)) => loading = FALSE)
  /\ [][\A s \in Slots :
          (InFlight(s) /\ tasks'[s] = Idle) => loading' = FALSE]_vars

C11_Witness ==
  /\ AllIdle
  /\ calls = MaxCalls
  /\ last.ev \in {"rejected", "failed"}
  /\ loading = FALSE

\* the collection a fetch action writes, and the fixed message of its catch
FetchedCollection(op) ==
  IF op = "fetchTrains" THEN <<trains, "Failed to fetch trains">>
  ELSE IF op = "fetchRecommendations" THEN <<recommendations, "Failed to fetch recommendations">>
  ELSE IF op = "fetchPredictions" THEN <<predictions, "Failed to fetch predictions">>
  ELSE IF op = "fetchKpis" THEN <<kpis, "Failed to fetch KPIs">>
  ELSE <<auditLogs, "Failed to fetch audit logs">>

IsFetch(task) ==
  task.op \in {"fetchTrains", "fetchRecommendations", "fetchPredictions", "fetchKpis", "fetchAuditLogs"}

\* C12 (as stated): when the request of any of the five fetch actions fails,
\* the step that settles the action sets error to the action's fixed message
\* and leaves the action's collection as it was.
C12_Original ==
  [][\A s \in Slots :
       (IsFetch(tasks[s]) /\ tasks'[s] = Idle /\ ~tasks[s].response.ok) =>
         /\ error' = FetchedCollection(tasks[s].op)[2]
         /\ FetchedCollection(tasks[s].op)[1]' = FetchedCollection(tasks[s].op)[1]]_vars

\* C13 (as stated): in the state a successfully completed action produces,
\* error is null.
C13_Original == last.ev = "resolved" => error = NullError

\* C13 (amended): error is cleared by the first state update of every fetch,
\* decision or simulation invocation, and the commit of a successful action
\* leaves error as it finds it.
C13_ClearedOnInvoke ==
  [][/\ (last'.ev = "issued" /\ calls' = calls + 1) => error' = NullError
     /\ (last'.ev = "resolved" /\ \E s \in Slots : InFlight(s) /\ tasks'[s] = Idle)
          => error' = error]_vars

\* a success committed after another action failed: the message stays
C13_Witness ==
  /\ last.ev = "resolved"
  /\ error # NullError

\* C14: every runSimulation invocation posts exactly one audit entry, after
\* a successful and after a failed simulator call alike; when the post
\* succeeds the commit puts exactly one entry, carrying the adapter's result,
\* in front of the auditLogs of that moment, clears loading and the action
\* returns that result.
C14_SimulationPostsAndCommits ==
  [][\A s \in Slots :
       (tasks[s].op = "runSimulation" /\ tasks'[s] # tasks[s]) =>
         IF tasks[s].phase = "simulate"
         THEN /\ posts' = posts + 1
              /\ tasks'[s].op = "runSimulation"
              /\ tasks'[s].phase = "audit"
              /\ tasks'[s].result = runWhatIfScenario(tasks[s].response, now')
         ELSE /\ posts' = posts
              /\ tasks'[s] = Idle
              /\ last'.ev = "resolved" =>
                   /\ Len(auditLogs') = Len(auditLogs) + 1
                   /\ Tail(auditLogs') = auditLogs
                   /\ auditLogs'[1].action = "What-If Simulation Executed"
                   /\ auditLogs'[1].details.results = tasks[s].result
                   /\ loading' = FALSE
                   /\ last'.returns = tasks[s].result]_vars

\* two simulations committed, the last one after a failed simulator call
C14_Witness ==
  /\ Resolved("runSimulation")
  /\ last.returns.safety = "unknown"
  /\ Len(auditLogs) = 2
  /\ posts = 2

\* C15: when postAudit fails inside runSimulation, the step that settles the
\* action sets error, clears loading, leaves auditLogs as it was and
\* returns nothing: the action rejects.
C15_SimulationAuditFailure ==
  [][\A s \in Slots :
       (tasks[s].op = "runSimulation" /\ tasks'[s] = Idle /\ last'.ev = "rejected") =>
         /\ auditLogs' = auditLogs
         /\ error' = "Failed to run simulation"
         /\ loading' = FALSE
         /\ "returns" \notin DOMAIN last']_vars

C15_Witness ==
  /\ last.ev = "rejected"
  /\ last.task.op = "runSimulation"
  /\ error = "Failed to run simulation"
  /\ loading = FALSE
  /\ Len(auditLogs) = 1

\* ------------------------------------------------------- chat properties
ChatInFlight(s) == tasks[s].op = "sendChatMessage"

\* the messages of the session with this id in the Store, << >> without one
MessagesOf(list, sessionId) ==
  IF FindSession(list, sessionId) = 0 THEN << >>
  ELSE list[FindSession(list, sessionId)].messages

\* the texts sent to a session, in call order
TextsSentTo(sessionId) ==
  LET ToSession(c) == c.sessionId = sessionId
      sent == SelectSeq(chatCalls, ToSession)
  IN [i \in 1..Len(sent) |-> sent[i].text]

\* one user message per text, in order, each followed by an assistant message
Conversation(messages, texts) ==
  LET IsUser(m) == m.role = "user"
      users == SelectSeq(messages, IsUser)
  IN /\ [i \in 1..Len(users) |-> users[i].text] = texts
     /\ Len(messages) > 0 => messages[1].role = "user"
     /\ \A i \in 1..Len(messages) :
          messages[i].role = "user" =>
            (i < Len(messages) /\ messages[i + 1].role = "assistant")

IsPrefix(a, b) == Len(a) <= Len(b) /\ SubSeq(b, 1, Len(a)) = a

\* a step of a sendChatMessage invocation: its call, or its continuation
ChatCallStep == last'.ev = "sent" /\ calls' = calls + 1
ChatReplyStep == \E s \in Slots : ChatInFlight(s) /\ tasks'[s] = Idle

\* C16 (as stated): once all sendChatMessage calls have settled, every
\* session's message list is, for each call on it in order, one user message
\* with the call's text followed by at least one assistant message.
C16_Original ==
  (\A s \in Slots : ~ChatInFlight(s)) =>
    \A id \in ChatSessionIds :
      Conversation(MessagesOf(chatSessions, id), TextsSentTo(id))

\* C17 (as stated): every step keeps every session, and each session's
\* message list of before is a prefix of its message list of after.
C17_Original ==
  [][\A i \in 1..Len(chatSessions) :
       /\ i <= Len(chatSessions')
       /\ chatSessions'[i].sessionId = chatSessions[i].sessionId
       /\ IsPrefix(chatSessions[i].messages, chatSessions'[i].messages)]_vars

\* C18: a step of sendChatMessage(s, text) leaves every session with an id
\* other than s exactly as it was.
C18_OtherSessionsUntouched ==
  [][(ChatCallStep \/ ChatReplyStep) =>
       \A i \in 1..Len(chatSessions) :
         chatSessions[i].sessionId # last'.task.sessionId =>
           (i <= Len(chatSessions') /\ chatSessions'[i] = chatSessions[i])]_vars

\* a reply arrived for one session while a call on another session, which
\* already holds messages, is in flight
C18_Witness ==
  /\ last.ev = "replied"
  /\ Len(chatSessions) = 2
  /\ \E s \in Slots :
       /\ ChatInFlight(s)
       /\ tasks[s].sessionId # last.task.sessionId
       /\ Len(MessagesOf(chatSessions, tasks[s].sessionId)) > 0
  /\ Len(MessagesOf(chatSessions, last.task.sessionId)) > 1

\* C19 (as stated): while a sendChatMessage request is in flight, the
\* session's message list in the Store ends with that call's user message.
C19_Original ==
  \A s \in Slots :
    ChatInFlight(s) =>
      LET messages == MessagesOf(chatSessions, tasks[s].sessionId)
          sent == tasks[s].updatedSession.messages
      IN /\ Len(messages) > 0
         /\ messages[Len(messages)].role = "user"
         /\ messages[Len(messages)].id = sent[Len(sent)].id
         /\ messages[Len(messages)].text = tasks[s].text

\* C19 (amended): in the state the call of sendChatMessage produces, the
\* session is in the Store, its message list ends with the user message of
\* the call, and the request of the call is in flight.
C19_UserMessageFirst ==
  last.ev = "sent" =>
    LET messages == MessagesOf(chatSessions, last.task.sessionId) IN
      /\ Len(messages) > 0
      /\ messages[Len(messages)].role = "user"
      /\ messages[Len(messages)].text = last.task.text
      /\ messages = last.task.updatedSession.messages
      /\ \E s \in Slots : tasks[s] = last.task

\* the second call on a session, made while the first is in flight
C19_Witness ==
  /\ last.ev = "sent"
  /\ Len(MessagesOf(chatSessions, last.task.sessionId)) = 2
  /\ \A s \in Slots : ChatInFlight(s)

\* the message the adapter or the catch block puts in place of a reply
IsSynthetic(m) ==
  /\ m.role = "assistant"
  /\ m.id[1] = "error" \/ m.id[Len(m.id)] = "error"

\* C20: no step of sendChatMessage or createChatSession writes error or
\* loading; a failed chat request adds one synthetic assistant message to
\* the conversation and nothing else.
C20_ChatLeavesErrorAndLoading ==
  [][/\ (ChatCallStep \/ ChatReplyStep \/ (last'.ev = "created" /\ calls' = calls + 1))
          => (error' = error /\ loading' = loading)
     /\ \A s \in Slots :
          (ChatInFlight(s) /\ tasks'[s] = Idle /\ tasks[s].response.kind # "data") =>
            LET before == MessagesOf(chatSessions, tasks[s].sessionId)
                after == MessagesOf(chatSessions', tasks[s].sessionId)
            IN /\ Len(after) > 0
               /\ IsSynthetic(after[Len(after)])
               /\ \/ SubSeq(after, 1, Len(after) - 1) = before
                  \/ SubSeq(after, 1, Len(after) - 1) = tasks[s].updatedSession.messages]_vars

\* a chat failure handled while a fetch is in flight: loading stays true
C20_Witness ==
  /\ last.ev = "replied"
  /\ last.task.response.kind = "nodata"
  /\ loading = TRUE
  /\ IsSynthetic(MessagesOf(chatSessions, last.task.sessionId)[2])

\* a step of createChatSession
CreateStep == last'.ev = "created" /\ calls' = calls + 1

\* C21 (as stated): the id createChatSession returns was in no session of
\* the Store before the call; after the call exactly one session has it, with
\* no messages, and the sessions of before are unchanged.
C21_Original ==
  [][CreateStep =>
       /\ FindSession(chatSessions, last'.returns) = 0
       /\ Cardinality({i \in 1..Len(chatSessions') :
                         chatSessions'[i].sessionId = last'.returns}) = 1
       /\ MessagesOf(chatSessions', last'.returns) = << >>
       /\ SubSeq(chatSessions', 1, Len(chatSessions)) = chatSessions]_vars

\* C22 (as stated): after sendChatMessage is called with a session id that
\* is in no session of the Store, the Store has no session with that id.
C22_Original ==
  [][(ChatCallStep /\ FindSession(chatSessions, last'.task.sessionId) = 0)
       => FindSession(chatSessions', last'.task.sessionId) = 0]_vars

\* C22 (amended): the call of sendChatMessage with a session id that is in
\* no session of the Store appends the default-constructed session, holding
\* the user message of the call, to chatSessions; the sessions of before are
\* unchanged.
C22_LazySessionInserted ==
  [][(ChatCallStep /\ FindSession(chatSessions, last'.task.sessionId) = 0) =>
       /\ Len(chatSessions') = Len(chatSessions) + 1
       /\ SubSeq(chatSessions', 1, Len(chatSessions)) = chatSessions
       /\ chatSessions'[Len(chatSessions')].sessionId = last'.task.sessionId
       /\ Len(chatSessions'[Len(chatSessions')].messages) = 1
       /\ chatSessions'[Len(chatSessions')].messages[1].role = "user"
       /\ chatSessions'[Len(chatSessions')].messages[1].text = last'.task.text]_vars

\* two sessions in the Store, both put there by sendChatMessage
C22_Witness ==
  /\ last.ev = "sent"
  /\ Len(chatCalls) = 2
  /\ Len(chatSessions) = 2
  /\ chatSessions[2].sessionId = last.task.sessionId
  /\ Len(chatSessions[2].messages) = 1

PersistedKeys ==
  {"trains", "recommendations", "predictions", "kpis", "selectedTrains",
   "activeFilters", "lastUpdated"}

\* C23: the stored snapshot has exactly the fields trains, recommendations,
\* predictions, kpis, selectedTrains, activeFilters and lastUpdated, with the
\* values of the current state (so no chatSessions, auditLogs, loading or
\* error); a Store rehydrated from it has those fields as they were,
\* chatSessions and auditLogs empty, loading false and error null.
C23_SnapshotAndRehydration ==
  /\ DOMAIN partialize(StoreState) = PersistedKeys
  /\ \A k \in PersistedKeys : partialize(StoreState)[k] = StoreState[k]
  /\ last.ev = "restarted" =>
       /\ \A k \in PersistedKeys : StoreState[k] = last.before[k]
       /\ chatSessions = << >>
       /\ auditLogs = << >>
       /\ loading = FALSE
       /\ error = NullError

\* a reload that dropped an audit entry, a chat session and an error
C23_Witness ==
  /\ last.ev = "restarted"
  /\ Len(last.before.auditLogs) > 0
  /\ Len(last.before.chatSessions) > 0
  /\ Len(recommendations) > 0
  /\ recommendations[1].status = "accepted"
  /\ "kpis" \notin DOMAIN lastUpdated
  /\ Len(selectedTrains) > 0

Called == exchange.op # "none"

TransportFailed ==
  IF exchange.outcome.kind = "network error" THEN TRUE
  ELSE exchange.outcome.status \notin 200..299

\* C24 (as stated): an adapter operation other than postAudit whose transport
\* call rejects resolves with its default value and never rejects.
C24_Original ==
  (Called /\ exchange.op # "postAudit" /\ exchange.transport.settled = "rejected")
    => exchange.result.settled = "resolved"

\* C25: when fetch throws or the status is outside 200..299 the transport call
\* rejects, and a rejected transport call makes postAudit reject with the
\* same error.
C25_TransportNeverSwallows ==
  Called =>
    /\ TransportFailed => exchange.transport.settled = "rejected"
    /\ (exchange.op = "postAudit" /\ exchange.transport.settled = "rejected")
         => /\ exchange.result.settled = "rejected"
            /\ exchange.result.error = exchange.transport.error

\* postAudit against a server answering 500
C25_Witness ==
  /\ Called
  /\ exchange.op = "postAudit"
  /\ exchange.outcome.kind = "response"
  /\ exchange.outcome.status = 500
  /\ exchange.result.settled = "rejected"

\* C26 (as stated): once a POST to /audit of an entry with action a, actor c
\* and reason r has succeeded, the list a GET without filters returns starts
\* with an entry of action a, actor c and reason r, whatever was stored before.
C26_Original ==
  (exchange.op = "POST /audit" /\ exchange.status = 200) =>
    LET listed == AuditList(auditStorage, NoFilters) IN
      /\ listed[1].action = exchange.body.action
      /\ listed[1].actor = exchange.body.actor
      /\ listed[1].reason = Field(exchange.body, "reason")

\* C27: every adapter call a Store action makes sends exactly one HTTP
\* request, whether it succeeds or fails: the number of requests sent grows
\* by one in each step in which a pending call of an invocation settles, and
\* in no other step.
C27_OneRequestPerCall ==
  [][LET Settles(s) == tasks[s] # Idle /\ tasks'[s] # tasks[s]
     IN IF \E s \in Slots : Settles(s)
        THEN requests' = requests + 1
        ELSE requests' = requests]_vars

\* a simulation with its audit post and a failed decision: three requests
C27_Witness ==
  /\ requests = 3
  /\ error # NullError
  /\ Len(auditLogs) > 0
  /\ AllIdle

\* C28 (as stated): a decision action called on a Recommendation that is
\* already accepted or rejected leaves its status as it was.
C28_Original ==
  (DecisionResolved /\ Before.status \in Decided) => After.status = Before.status

\* the lastUpdated key a fetch action stamps
StampKey(op) ==
  IF op = "fetchTrains" THEN "trains"
  ELSE IF op = "fetchRecommendations" THEN "recommendations"
  ELSE IF op = "fetchPredictions" THEN "predictions"
  ELSE IF op = "fetchKpis" THEN "kpis"
  ELSE "auditLogs"

\* the step in which the fetch action in slot s commits
FetchCommits(s) ==
  /\ IsFetch(tasks[s])
  /\ tasks'[s] = Idle
  /\ last'.ev = "resolved"

OthersKept(key) ==
  /\ DOMAIN lastUpdated' = DOMAIN lastUpdated \cup {key}
  /\ \A k \in DOMAIN lastUpdated \ {key} : lastUpdated'[k] = lastUpdated[k]

\* C29 (as stated): the commit of each of the five fetch actions, fetchAuditLogs
\* included, stamps lastUpdated for its own collection and leaves the stamps
\* of the other collections as they were.
C29_Original ==
  [][\A s \in Slots :
       FetchCommits(s) =>
         /\ OthersKept(StampKey(tasks[s].op))
         /\ lastUpdated'[StampKey(tasks[s].op)] = now']_vars

\* C29 (amended): the commit of fetchTrains, fetchRecommendations,
\* fetchPredictions and fetchKpis stamps lastUpdated for its own collection
\* with the time of the commit and leaves the other stamps as they were, also
\* when fetches overlap; the commit of fetchAuditLogs leaves lastUpdated as it
\* was, and no stamp for the audit log exists.
C29_StampsOwnCollection ==
  [][\A s \in Slots :
       FetchCommits(s) =>
         IF tasks[s].op = "fetchAuditLogs"
         THEN lastUpdated' = lastUpdated /\ "auditLogs" \notin DOMAIN lastUpdated'
         ELSE /\ OthersKept(StampKey(tasks[s].op))
              /\ lastUpdated'[StampKey(tasks[s].op)] = now']_vars

\* the KPI fetch commits, while a fetch of the trains is in flight, into a
\* Store that holds an earlier stamp of the recommendations
C29_Witness ==
  /\ Resolved("fetchKpis")
  /\ DOMAIN lastUpdated = {"recommendations", "kpis"}
  /\ lastUpdated.recommendations < lastUpdated.kpis
  /\ \E s \in Slots : tasks[s] # Idle /\ tasks[s].op = "fetchTrains"

\* C30: a commit is one state replacement. No reachable state holds a fetched
\* collection without its lastUpdated stamp; the state a fetch commit produces
\* has the fetched collection, the stamp of this commit and loading = false
\* together; the state a decision commit produces has the new status of the
\* target, the audit entry of this decision at the head of auditLogs and
\* loading = false together.
C30_CommitIsOneReplacement ==
  /\ trains # << >> => "trains" \in DOMAIN lastUpdated
  /\ recommendations # << >> => "recommendations" \in DOMAIN lastUpdated
  /\ \A op \in {"fetchTrains", "fetchRecommendations"} :
       Resolved(op) =>
         /\ FetchedCollection(op)[1] = last.task.response.data
         /\ StampKey(op) \in DOMAIN lastUpdated
         /\ lastUpdated[StampKey(op)] = now
         /\ loading = FALSE
  /\ DecisionResolved =>
       /\ After.status = (IF last.task.op = "reject" THEN "rejected" ELSE "accepted")
       /\ Len(auditLogs) > 0
       /\ auditLogs[1] = StoredEntry(last.task.auditLog, now)
       /\ loading = FALSE

\* a decision commits into a Store whose trains were fetched and stamped
C30_Witness ==
  /\ DecisionResolved
  /\ After.status = "rejected"
  /\ Len(trains) > 0
  /\ "trains" \in DOMAIN lastUpdated

\* the headers the caller of apiFetch supplied
SuppliedHeaders ==
  IF "headers" \in DOMAIN exchange.options THEN exchange.options.headers ELSE << >>

\* C31 (as stated): when the caller's headers do not define Content-Type, the
\* headers of the request sent are the caller's headers plus
\* Content-Type: application/json.
C31_Original ==
  (exchange.op = "apiFetch" /\ "Content-Type" \notin DOMAIN SuppliedHeaders) =>
    /\ "headers" \in DOMAIN exchange.sent
    /\ exchange.sent.headers = Spread(SuppliedHeaders, JsonHeader)

\* C32 (as stated): the entry a successful POST to /audit stores has the id
\* and the timestamp the server made for it, whatever id and timestamp the
\* request body carries, and the response returns the id of the stored entry.
C32_Original ==
  (exchange.op = "POST /audit" /\ exchange.status = 200) =>
    /\ auditStorage[1].timestamp = now
    /\ \E random \in Randoms : auditStorage[1].id = <<"audit", now, random>>
    /\ exchange.data.id = auditStorage[1].id

\* C33 (as stated): in the state the commit of fetchKpis produces, the Store's
\* kpis is the list of KPI records of the /kpis response, whose data is
\* { kpis, networkStatus, summary }.
C33_Original ==
  Resolved("fetchKpis") =>
    \* an object with a kpis field is the response data, not the list in it
    IF "kpis" \in DOMAIN kpis THEN FALSE
    ELSE kpis = last.task.response.data.kpis

\* C34 (as stated): after a createChatSession call, the session the selector
\* useActiveChatSession (and chatSessions[0]) yields is the one just created.
C34_Original ==
  last.ev = "created" => useActiveChatSession.sessionId = last.returns

\* the step in which the decision action in slot s commits
DecisionCommits(s) ==
  /\ IsDecision(tasks[s])
  /\ tasks'[s] = Idle
  /\ last'.ev = "resolved"

\* C35 (as stated): the commit of a decision action changes the target only:
\* every other Recommendation is after the commit as it was in the Store just
\* before it.
C35_Original ==
  [][\A s \in Slots :
       DecisionCommits(s) =>
         IF Len(recommendations') # Len(recommendations) THEN FALSE
         ELSE \A i \in 1..Len(recommendations) :
                recommendations[i].id # tasks[s].recId =>
                  recommendations'[i] = recommendations[i]]_vars

\* C36 (as stated): loading is true in every state in which a fetch, decision
\* or simulation action has sent its request and has not settled.
C36_Original == (\E s \in Slots : InFlight(s)) => loading = TRUE

\* the step in which the runSimulation invocation in slot s commits
SimulationCommits(s) ==
  /\ tasks[s].op = "runSimulation"
  /\ tasks'[s] = Idle
  /\ last'.ev = "resolved"

\* C37: the commit of runSimulation puts one entry in front of the auditLogs
\* of that moment and clears loading; recommendations, trains, predictions,
\* kpis, chatSessions and the rest of the Store stay as they were, also when
\* decisions or other simulations settled while it was in flight.
C37_SimulationCommitFrame ==
  [][\A s \in Slots :
       SimulationCommits(s) =>
         /\ Len(auditLogs') = Len(auditLogs) + 1
         /\ Tail(auditLogs') = auditLogs
         /\ loading' = FALSE
         /\ UNCHANGED <<recommendations, trains, predictions, kpis, chatSessions,
                        error, lastUpdated, selectedTrains, activeFilters>>]_vars

\* a decision committed while the simulation was in flight; the simulation's
\* commit keeps its entry and its status change
C37_Witness ==
  /\ Resolved("runSimulation")
  /\ Len(auditLogs) = 2
  /\ auditLogs[2].action = "Recommendation Accepted"
  /\ Len(recommendations) > 0
  /\ recommendations[1].status = "accepted"

\* C38 (as stated): in the Store a reload produces, every accepted or rejected
\* Recommendation has an audit entry with its recId in auditLogs.
C38_Original ==
  last.ev = "restarted" =>
    \A i \in 1..Len(recommendations) :
      recommendations[i].status \in Decided =>
        \E j \in 1..Len(auditLogs) : auditLogs[j].recId = recommendations[i].id

\* C39 (as stated): the ids of the entries in auditLogs are pairwise distinct
\* after any sequence of decision and simulation actions.
C39_Original ==
  \A i, j \in 1..Len(auditLogs) : i # j => auditLogs[i].id # auditLogs[j].id

====
